---- MODULE Spec2Model ----
(***************************************************************************)
(* State-machine model of replay_trajectory_classification/classifier.py:  *)
(* _ClassifierBase.estimate_parameters (the EM-style refinement loop),     *)
(* SortedSpikesClassifier.fit / predict, and _ClassifierBase._get_results  *)
(* with _convert_results_to_xarray.                                        *)
(*                                                                         *)
(* Floating-point arrays are modelled by their layout and provenance: an   *)
(* array is a record [src, kind] where kind gives, per entry, whether the  *)
(* entry is NaN ("nan"), an exact 0.0 written by the code ("zero") or a    *)
(* number computed from src ("val"), and src is the symbolic term (a       *)
(* sequence of strings) naming the computation the numbers come from.      *)
(* Two arrays with the same src and kind hold the same numbers.            *)
(***************************************************************************)
EXTENDS Integers, Sequences, FiniteSets, TLC

\* ---------------------------------------------------------------- bounds
MaxIter == 2        \* largest max_iter tried
MaxLL == 2          \* data log-likelihoods range over 0..MaxLL
MaxBins == 2        \* position bins of the largest environment
MaxStates == 2      \* largest number of discrete states
NTime == 2          \* number of time steps of the decoded spikes

VARIABLES
    self,                  \* the classifier object (its attributes)
    call,                  \* keyword arguments estimate_parameters was called with
    predict_args,          \* the caller's predict_args dict (the same object)
    pc,                    \* position inside estimate_parameters
    store_likelihood,      \* local: the store_likelihood value in effect
    results,               \* local: the latest results Dataset
    data_log_likelihoods,  \* local: list of data log likelihoods
    converged,             \* local
    increasing,            \* local
    n_iter,                \* local
    get_results_args,      \* local: the predict_args forwarded to _get_results
    warned,                \* the "Max iterations reached..." warning was logged
    n_fit,                 \* number of calls of self.fit
    n_likelihood,          \* number of times the emission likelihood was computed
    pass_log,              \* the log likelihood of every filter/smooth pass, in order
    oracle                 \* data log likelihood of every filter input seen so far

vars == <<self, call, predict_args, pc, store_likelihood, results,
          data_log_likelihoods, converged, increasing, n_iter, get_results_args,
          warned, n_fit, n_likelihood, pass_log, oracle>>

\* ---------------------------------------------------------------- helpers
NaN == "nan"
Zero == "zero"
Val == "val"

Abs(x) == IF x < 0 THEN -x ELSE x

MaxOf(S) == CHOOSE x \in S : \A y \in S : y <= x

Last(s) == s[Len(s)]

\* Boolean masks of n bins with at least one interior bin.
Masks(n) == {m \in [1..n -> BOOLEAN] : \E b \in 1..n : m[b]}

\* The sequence f, as an explicit tuple: TLC then builds it once instead of
\* evaluating the function expression at every use.
Built(f) == f \o <<>>

\* np.full(shape, value) for the shapes used: (n_time, n_states, n_bins, 1).
Full3(n_time, n_states, n_bins, value) ==
    LET row == Built([b \in 1..n_bins |-> value])
        slice == Built([s \in 1..n_states |-> row])
    IN  Built([t \in 1..n_time |-> slice])

\* The indices where a boolean mask is true, in increasing order.
RECURSIVE Where(_, _)
Where(m, b) ==
    IF b > Len(m) THEN <<>>
    ELSE (IF m[b] THEN <<b>> ELSE <<>>) \o Where(m, b + 1)

\* row[mask]: numpy boolean indexing along one axis.
TakeAt(row, where) == Built([k \in 1..Len(where) |-> row[where[k]]])

Take(row, m) == TakeAt(row, Where(m, 1))

\* row[mask] = values: numpy boolean assignment along one axis.
Put(row, m, values) ==
    Built([b \in 1..Len(row) |->
        IF m[b] THEN values[Cardinality({c \in 1..b : m[c]})] ELSE row[b]])

NoArray == [src |-> <<>>, kind |-> <<>>]

NoMatrix == [src |-> <<>>, n |-> 0, rows |-> <<>>]

NoLikelihood == [name \in {} |-> <<>>]

NoResults ==
    [src |-> <<>>, likelihood |-> <<>>, causal_posterior |-> <<>>,
     has_acausal |-> FALSE, acausal_posterior |-> <<>>,
     data_log_likelihood |-> 0,
     inputs |-> [initial_conditions |-> NoArray, continuous |-> NoArray,
                 discrete |-> NoMatrix, likelihood |-> <<>>]]

\* ---------------------------------------------------------------- construction
\* _ClassifierBase.__init__: the attributes set by the constructor; the fitted
\* attributes (trailing underscore) do not exist yet and are shown empty.
ClassifierInit(environment_names, observation_models, continuous_transition_types) ==
    [environments |->
        [e \in 1..Len(environment_names) |->
            [environment_name |-> environment_names[e], is_track_interior_ |-> <<>>,
             centers_shape_ |-> <<>>]],
     observation_models |-> observation_models,
     continuous_transition_types |-> continuous_transition_types,
     max_pos_bins_ |-> 0,
     initial_conditions_ |-> NoArray,
     continuous_state_transition_ |-> NoArray,
     discrete_state_transition_ |-> NoMatrix,
     place_fields_ |-> {},
     likelihood_ |-> NoLikelihood]

\* environments.index(name): the position of the environment with that name.
EnvIndex(environments, name) ==
    CHOOSE e \in 1..Len(environments) : environments[e].environment_name = name

\* ---------------------------------------------------------------- fit
\* Environment.fit_place_grid is outside the modelled files: the grid it infers
\* from the position data is given by fit_args.layout, one interior mask per
\* environment (is_track_interior_.ravel(order="F")).
\* centers_shape_ is the shape of the grid: (n_bins,) with one position
\* dimension, (n_x, n_y) with two; the two-dimensional grids tried are the
\* 1 x n_bins ones.
CentersShape(position_dims, n_bins) ==
    IF position_dims = 1 THEN <<n_bins>> ELSE <<1, n_bins>>

fit_environments(clf, fit_args) ==
    [clf EXCEPT
        !.environments =
            [e \in DOMAIN clf.environments |->
                [clf.environments[e] EXCEPT
                    !.is_track_interior_ = fit_args.layout[e],
                    !.centers_shape_ =
                        CentersShape(fit_args.position_dims, Len(fit_args.layout[e]))]],
        !.max_pos_bins_ =
            MaxOf({Len(fit_args.layout[e]) : e \in DOMAIN clf.environments})]

\* initial_conditions_type.make_initial_conditions: per state, uniform over the
\* interior bins of the state's environment and 0 on its other bins.
make_initial_conditions(environments, environment_names_to_state) ==
    [s \in DOMAIN environment_names_to_state |->
        LET env == environments[EnvIndex(environments, environment_names_to_state[s])]
        IN  [b \in DOMAIN env.is_track_interior_ |->
                IF env.is_track_interior_[b] THEN Val ELSE Zero]]

fit_initial_conditions(clf) ==
    LET n_states == Len(clf.observation_models)
        initial_conditions ==
            make_initial_conditions(clf.environments, clf.observation_models)
    IN  [clf EXCEPT !.initial_conditions_ =
            [src |-> <<"ic_fit">>,
             kind |-> [s \in 1..n_states |-> [b \in 1..clf.max_pos_bins_ |->
                         IF b <= Len(initial_conditions[s])
                         THEN initial_conditions[s][b] ELSE Zero]]]]

\* transition.make_state_transition(environments): a kernel over the bins of
\* the environment the transition type names.
make_state_transition(environments, transition) ==
    LET n_bins == Len(environments[EnvIndex(environments, transition)].is_track_interior_)
    IN  [b \in 1..n_bins |-> [c \in 1..n_bins |-> Val]]

\* Mutant: every kernel is stored in its own shape, without the zero padding.
fit_continuous_state_transitionUnpadded(clf) ==
    [clf EXCEPT !.continuous_state_transition_ =
        [src |-> <<"cst_fit">>,
         kind |-> [i \in 1..Len(clf.continuous_transition_types) |->
                    [j \in 1..Len(clf.continuous_transition_types) |->
                        make_state_transition(clf.environments,
                                              clf.continuous_transition_types[i][j])]]]]

fit_continuous_state_transition(clf) ==
    LET n_states == Len(clf.continuous_transition_types)
        st(i, j) == make_state_transition(clf.environments,
                                          clf.continuous_transition_types[i][j])
    IN  [clf EXCEPT !.continuous_state_transition_ =
            [src |-> <<"cst_fit">>,
             kind |-> [i \in 1..n_states |-> [j \in 1..n_states |->
                        [b \in 1..clf.max_pos_bins_ |-> [c \in 1..clf.max_pos_bins_ |->
                            IF b <= Len(st(i, j)) /\ c <= Len(st(i, j))
                            THEN st(i, j)[b][c] ELSE Zero]]]]]]

\* A row of a transition matrix: its entries are probabilities that sum to 1,
\* or they are not normalized.
Stochastic == "stochastic"
Unnormalized == "unnormalized"

\* discrete_transition_type.make_state_transition(n_states): a matrix of
\* n_states rows, each row a probability distribution over the next state.
discrete_make_state_transition(n_states) ==
    [src |-> <<"dst_fit">>, n |-> n_states, rows |-> [i \in 1..n_states |-> Stochastic]]

\* Mutant: the matrix is stored scaled by the number of states.
fit_discrete_state_transitionScaled(clf) ==
    [clf EXCEPT !.discrete_state_transition_ =
        [discrete_make_state_transition(Len(clf.continuous_transition_types))
            EXCEPT !.rows = [i \in DOMAIN @ |-> Unnormalized]]]

fit_discrete_state_transition(clf) ==
    [clf EXCEPT !.discrete_state_transition_ =
        discrete_make_state_transition(Len(clf.continuous_transition_types))]

\* SortedSpikesClassifier.fit_place_fields: one place-field model per distinct
\* observation model, keyed by its environment name (encoding_group is 0).
fit_place_fields(clf) ==
    [clf EXCEPT !.place_fields_ =
        {clf.observation_models[s] : s \in DOMAIN clf.observation_models}]

\* environments.index(name) raises ValueError when no environment has the name
\* of some observation model: in make_initial_conditions first (called by
\* fit_initial_conditions, line 149), and again at lines 936-938.
UnknownEnvironment(clf) ==
    \E s \in DOMAIN clf.observation_models :
        \A e \in DOMAIN clf.environments :
            clf.environments[e].environment_name # clf.observation_models[s]

\* SortedSpikesClassifier.fit
fit(clf, fit_args) ==
    fit_place_fields(
        fit_discrete_state_transition(
            fit_continuous_state_transition(
                fit_initial_conditions(
                    fit_environments(clf, fit_args)))))

\* Mutant: the emission models are fitted before the initial conditions, so the
\* place fields of the known environments exist when the error is raised.
FitOutcomePlaceFieldsFirst(clf, fit_args) ==
    IF UnknownEnvironment(clf)
    THEN [raised |-> TRUE,
          self |-> [fit_environments(clf, fit_args) EXCEPT !.place_fields_ =
                      {clf.observation_models[s] : s \in DOMAIN clf.observation_models}
                          \cap {clf.environments[e].environment_name :
                                    e \in DOMAIN clf.environments}]]
    ELSE [raised |-> FALSE, self |-> fit(clf, fit_args)]

\* Lines 1040-1053: the classifier fit leaves behind, and whether it raised.
\* The error of an unknown environment is raised by the second step, after
\* fit_environments and before everything else.
FitOutcome(clf, fit_args) ==
    IF UnknownEnvironment(clf)
    THEN [raised |-> TRUE, self |-> fit_environments(clf, fit_args)]
    ELSE [raised |-> FALSE, self |-> fit(clf, fit_args)]

\* ---------------------------------------------------------------- numeric core
\* The functions of replay_trajectory_classification.core are outside the
\* modelled files; they are modelled by what the specification says of them.

\* mask(value, is_track_interior): the non-interior bins are masked out (NaN).
mask(value, is_track_interior) ==
    Built([t \in DOMAIN value |-> Built([s \in DOMAIN value[t] |->
        Built([b \in DOMAIN value[t][s] |->
            IF is_track_interior[b] THEN value[t][s][b] ELSE NaN])])])

\* scaled_likelihood: per time step rescaling; a NaN stays a NaN.
scaled_likelihood(likelihood) == likelihood

HasNaN3(a) == \E t \in DOMAIN a : \E s \in DOMAIN a[t] : \E b \in DOMAIN a[t][s] :
                  a[t][s][b] = NaN

HasNaN2(a) == \E s \in DOMAIN a : \E b \in DOMAIN a[s] : a[s][b] = NaN

\* An array of the shape of a (n_time, n_states, n_bins) holding value.
FullLike(a, value) ==
    Built([t \in DOMAIN a |-> Built([s \in DOMAIN a[t] |->
        Built([b \in DOMAIN a[t][s] |-> value])])])

\* _causal_classify: a normalized posterior of the likelihood's shape, one
\* computed number per entry (NaN everywhere when an input holds a NaN).
compute_causal(initial_conditions, continuous, discrete, likelihood) ==
    FullLike(likelihood,
             IF HasNaN2(initial_conditions) \/ HasNaN3(likelihood) THEN NaN ELSE Val)

\* _acausal_classify: a smoothed posterior of the causal posterior's shape.
compute_acausal(causal_posterior, continuous, discrete) ==
    FullLike(causal_posterior, IF HasNaN3(causal_posterior) THEN NaN ELSE Val)

\* check_converged(loglik, previous_loglik, tolerance): converged when the
\* change is below the tolerance, increasing when the likelihood did not drop.
check_converged(loglik, previous_loglik, tolerance) ==
    [converged |-> Abs(loglik - previous_loglik) < tolerance,
     increasing |-> loglik >= previous_loglik]

\* estimate_discrete_state_transition(classifier, results): the expected
\* transition counts of the smoothed posterior, normalized per row.
estimate_discrete_state_transition(clf, res) ==
    [src |-> <<"dst_est">> \o res.src, n |-> clf.discrete_state_transition_.n,
     rows |-> [i \in 1..clf.discrete_state_transition_.n |-> Stochastic]]

\* ---------------------------------------------------------------- _get_results
\* The symbolic term of a filter/smooth pass: what its numbers are computed from.
ResultsSrc(clf) ==
    <<"results">> \o clf.initial_conditions_.src
        \o clf.continuous_state_transition_.src
        \o clf.discrete_state_transition_.src \o <<"likelihood">>

\* Mutant: the NaN entries are left as they are.
NanKept(a) == a

\* Line 560: results["likelihood"][np.isnan(results["likelihood"])] = 0.0
NanToZero(a) ==
    Built([t \in DOMAIN a |-> Built([s \in DOMAIN a[t] |->
        Built([b \in DOMAIN a[t][s] |->
            IF a[t][s][b] = NaN THEN Zero ELSE a[t][s][b]])])])

\* Lines 546-557: the NaN-filled array, then one slice per observation model.
FillLikelihood(clf, likelihood, n_time) ==
    Built([t \in 1..n_time |-> Built([s \in 1..clf.discrete_state_transition_.n |->
        Built([b \in 1..clf.max_pos_bins_ |->
            IF s <= Len(clf.observation_models)
               /\ b <= Len(likelihood[clf.observation_models[s]][t])
            THEN likelihood[clf.observation_models[s]][t][b]
            ELSE NaN])])])

\* Lines 546-560: the likelihood array handed to the filter.
GetResultsLikelihood(clf, likelihood, n_time) ==
    NanToZero(scaled_likelihood(FillLikelihood(clf, likelihood, n_time)))

\* kernel[np.ix_(is_track_interior, is_track_interior)]
TakeKernel(kernel, is_track_interior) ==
    Built([b \in DOMAIN Take(kernel, is_track_interior) |->
        Take(Take(kernel, is_track_interior)[b], is_track_interior)])

\* continuous_state_transition_[np.ix_(is_states, is_states, interior, interior)]
TakeKernels(kind, is_track_interior) ==
    Built([i \in DOMAIN kind |-> Built([j \in DOMAIN kind[i] |->
        TakeKernel(kind[i][j], is_track_interior)])])

\* a[:, :, is_track_interior]
Take3(a, is_track_interior) ==
    Built([t \in DOMAIN a |->
        Built([s \in DOMAIN a[t] |-> Take(a[t][s], is_track_interior)])])

\* a[:, :, is_track_interior] = values
Put3(a, is_track_interior, values) ==
    Built([t \in DOMAIN a |-> Built([s \in DOMAIN a[t] |->
        Put(a[t][s], is_track_interior, values[t][s])])])

\* Mutant: the arrays are passed whole, as in multi-environment mode.
FilterInputsWhole(clf, likelihood_array) ==
    [initial_conditions |-> clf.initial_conditions_,
     continuous |-> clf.continuous_state_transition_,
     discrete |-> clf.discrete_state_transition_,
     likelihood |-> likelihood_array]

\* Mutant: the interior mask of the first environment is applied in every mode.
FilterInputsMasked(clf, likelihood_array) ==
    [initial_conditions |->
        [src |-> clf.initial_conditions_.src,
         kind |-> Built([s \in DOMAIN clf.initial_conditions_.kind |->
                     Take(clf.initial_conditions_.kind[s],
                          clf.environments[1].is_track_interior_)])],
     continuous |->
        [src |-> clf.continuous_state_transition_.src,
         kind |-> TakeKernels(clf.continuous_state_transition_.kind,
                              clf.environments[1].is_track_interior_)],
     discrete |-> clf.discrete_state_transition_,
     likelihood |-> Take3(likelihood_array, clf.environments[1].is_track_interior_)]

\* Lines 583-586 and 608-611: the arguments compute_causal receives.
FilterInputs(clf, likelihood_array) ==
    IF Len(clf.environments) = 1
    THEN [initial_conditions |->
             [src |-> clf.initial_conditions_.src,
              kind |-> Built([s \in DOMAIN clf.initial_conditions_.kind |->
                          Take(clf.initial_conditions_.kind[s],
                               clf.environments[1].is_track_interior_)])],
          continuous |->
             [src |-> clf.continuous_state_transition_.src,
              kind |-> TakeKernels(clf.continuous_state_transition_.kind,
                                   clf.environments[1].is_track_interior_)],
          discrete |-> clf.discrete_state_transition_,
          likelihood |-> Take3(likelihood_array,
                               clf.environments[1].is_track_interior_)]
    ELSE [initial_conditions |-> clf.initial_conditions_,
          continuous |-> clf.continuous_state_transition_,
          discrete |-> clf.discrete_state_transition_,
          likelihood |-> likelihood_array]

\* Mutant: the filter output is written to the leading bins, not the interior.
CausalPosteriorLeadingBins(clf, n_time, inputs) ==
    IF Len(clf.environments) = 1
    THEN Put3(Full3(n_time, clf.discrete_state_transition_.n,
                    Len(clf.environments[1].is_track_interior_), NaN),
              [b \in DOMAIN clf.environments[1].is_track_interior_ |->
                  b <= Len(Where(clf.environments[1].is_track_interior_, 1))],
              compute_causal(inputs.initial_conditions.kind, inputs.continuous.kind,
                             inputs.discrete, inputs.likelihood))
    ELSE compute_causal(inputs.initial_conditions.kind, inputs.continuous.kind,
                        inputs.discrete, inputs.likelihood)

\* The filter's check of its arguments: the regime counts and the bin counts of
\* the initial distribution, the kernels, the discrete matrix and the
\* likelihood agree, or the call fails before the recursion starts.
ShapeMismatch(inputs) ==
    \/ Len(inputs.initial_conditions.kind) # inputs.discrete.n
    \/ Len(inputs.continuous.kind) # inputs.discrete.n
    \/ \E t \in DOMAIN inputs.likelihood :
        \/ Len(inputs.likelihood[t]) # inputs.discrete.n
        \/ \E s \in DOMAIN inputs.likelihood[t] :
            \/ \E r \in DOMAIN inputs.initial_conditions.kind :
                Len(inputs.initial_conditions.kind[r]) # Len(inputs.likelihood[t][s])
            \/ \E i \in DOMAIN inputs.continuous.kind :
                \E j \in DOMAIN inputs.continuous.kind[i] :
                    Len(inputs.continuous.kind[i][j]) # Len(inputs.likelihood[t][s])

\* Lines 552-557: with more observation models than n_states the assignment
\* to results["likelihood"][:, state_ind] raises IndexError.
FillRaises(clf) == Len(clf.observation_models) > clf.discrete_state_transition_.n

\* Mutant: no pass fails.
GetResultsNeverRaises(clf, likelihood, n_time) == FALSE

\* Line 583: self.initial_conditions_[:, is_track_interior] raises IndexError
\* when the second axis of initial_conditions_ is not as long as the flat mask.
MaskIndexRaises(clf) ==
    /\ Len(clf.environments) = 1
    /\ \E s \in DOMAIN clf.initial_conditions_.kind :
        Len(clf.initial_conditions_.kind[s]) # Len(clf.environments[1].is_track_interior_)

\* _get_results raises: at the likelihood fill, at the indexing with the
\* interior mask, or inside compute_causal.
GetResultsRaises(clf, likelihood, n_time) ==
    IF FillRaises(clf) \/ MaskIndexRaises(clf)
    THEN TRUE
    ELSE ShapeMismatch(FilterInputs(clf, GetResultsLikelihood(clf, likelihood, n_time)))

\* Lines 576-587 and 607-612: results["causal_posterior"].
CausalPosterior(clf, n_time, inputs) ==
    IF Len(clf.environments) = 1
    THEN Put3(Full3(n_time, clf.discrete_state_transition_.n,
                    Len(clf.environments[1].is_track_interior_), NaN),
              clf.environments[1].is_track_interior_,
              compute_causal(inputs.initial_conditions.kind, inputs.continuous.kind,
                             inputs.discrete, inputs.likelihood))
    ELSE compute_causal(inputs.initial_conditions.kind, inputs.continuous.kind,
                        inputs.discrete, inputs.likelihood)

\* Lines 589-599 and 614-620: results["acausal_posterior"].
AcausalPosterior(clf, n_time, inputs, causal_posterior) ==
    IF Len(clf.environments) = 1
    THEN Put3(Full3(n_time, clf.discrete_state_transition_.n,
                    Len(clf.environments[1].is_track_interior_), NaN),
              clf.environments[1].is_track_interior_,
              compute_acausal(Take3(causal_posterior,
                                    clf.environments[1].is_track_interior_),
                              inputs.continuous.kind, inputs.discrete))
    ELSE compute_acausal(causal_posterior, inputs.continuous.kind, inputs.discrete)

\* reshape(new_shape, order="F") of the bin axis of one (time, state) row: with
\* shape (n_x, n_y) entry [x][y] is the flat entry x + n_x * (y - 1); with one
\* position dimension there is no reshape and the row stays flat.
Reshape(row, centers_shape) ==
    IF Len(centers_shape) = 1
    THEN row
    ELSE Built([x \in 1..centers_shape[1] |-> Built([y \in 1..centers_shape[2] |->
             row[x + centers_shape[1] * (y - 1)]])])

\* Lines 665-704: mask(value, is_track_interior).squeeze(axis=-1), reshaped to
\* (n_time, n_states, *centers_shape) when there are two position dimensions.
MaskAndReshape(value, environment) ==
    Built([t \in DOMAIN value |-> Built([s \in DOMAIN value[t] |->
        Reshape(mask(value, environment.is_track_interior_)[t][s],
                environment.centers_shape_)])])

\* _convert_results_to_xarray: every data variable goes through mask(), loses
\* its trailing axis and takes the position dimensions of the first environment.
convert_results_to_xarray(clf, res) ==
    [res EXCEPT
        !.likelihood = MaskAndReshape(res.likelihood, clf.environments[1]),
        !.causal_posterior = MaskAndReshape(res.causal_posterior, clf.environments[1]),
        !.acausal_posterior =
            IF res.has_acausal
            THEN MaskAndReshape(res.acausal_posterior, clf.environments[1])
            ELSE <<>>]

\* _convert_results_to_xarray_mutienvironment: the arrays are kept whole.
convert_results_to_xarray_mutienvironment(clf, res) == res

\* Lines 601-603 and 622-624: the results dict made into a Dataset.
ConvertResults(clf, res) ==
    IF Len(clf.environments) = 1
    THEN convert_results_to_xarray(clf, res)
    ELSE convert_results_to_xarray_mutienvironment(clf, res)

\* Mutant: the acausal posterior is computed whatever is_compute_acausal says.
ResultsDictAlwaysAcausal(clf, n_time, is_compute_acausal, data_log_likelihood, likelihood_array, inputs, causal_posterior) ==
    [src |-> ResultsSrc(clf),
     likelihood |-> likelihood_array,
     causal_posterior |-> causal_posterior,
     has_acausal |-> TRUE,
     acausal_posterior |-> AcausalPosterior(clf, n_time, inputs, causal_posterior),
     data_log_likelihood |-> data_log_likelihood,
     inputs |-> inputs]

\* The results dict of _get_results, from the arrays computed so far.
ResultsDict(clf, n_time, is_compute_acausal, data_log_likelihood, likelihood_array, inputs, causal_posterior) ==
    [src |-> ResultsSrc(clf),
     likelihood |-> likelihood_array,
     causal_posterior |-> causal_posterior,
     has_acausal |-> is_compute_acausal,
     acausal_posterior |->
         IF is_compute_acausal
         THEN AcausalPosterior(clf, n_time, inputs, causal_posterior) ELSE <<>>,
     data_log_likelihood |-> data_log_likelihood,
     inputs |-> inputs]

GetResultsFiltered(clf, n_time, is_compute_acausal, data_log_likelihood, likelihood_array, inputs) ==
    ConvertResults(clf,
        ResultsDict(clf, n_time, is_compute_acausal, data_log_likelihood,
                    likelihood_array, inputs, CausalPosterior(clf, n_time, inputs)))

GetResultsScaled(clf, n_time, is_compute_acausal, data_log_likelihood, likelihood_array) ==
    GetResultsFiltered(clf, n_time, is_compute_acausal, data_log_likelihood,
                       likelihood_array, FilterInputs(clf, likelihood_array))

\* _ClassifierBase._get_results; data_log_likelihood is the value the causal
\* filter returns for these inputs.
get_results(clf, likelihood, n_time, is_compute_acausal, data_log_likelihood) ==
    GetResultsScaled(clf, n_time, is_compute_acausal, data_log_likelihood,
                     GetResultsLikelihood(clf, likelihood, n_time))

\* ---------------------------------------------------------------- predict
ArgOr(args, key, default) == IF key \in DOMAIN args THEN args[key] ELSE default

\* Lines 1093-1101: the emission likelihood of every fitted place-field model,
\* (n_time, n_bins) per environment; the likelihood algorithm (outside the
\* modelled files) leaves the non-interior bins undefined (NaN).
RawLikelihood(is_track_interior, n_time) ==
    Built([t \in 1..n_time |-> Built([b \in DOMAIN is_track_interior |->
        IF is_track_interior[b] THEN Val ELSE NaN])])

PredictLikelihood(clf, n_time) ==
    [name \in clf.place_fields_ |->
        RawLikelihood(
            clf.environments[EnvIndex(clf.environments, name)].is_track_interior_,
            n_time)]

\* Mutant: the likelihood is stored whatever store_likelihood says.
PredictStoreAlways(clf, args, likelihood) == [clf EXCEPT !.likelihood_ = likelihood]

\* Lines 1102-1103: the classifier after predict.
PredictStore(clf, args, likelihood) ==
    IF ArgOr(args, "store_likelihood", FALSE)
    THEN [clf EXCEPT !.likelihood_ = likelihood] ELSE clf

PredictWith(clf, args, data_log_likelihood, likelihood) ==
    [self |-> PredictStore(clf, args, likelihood),
     results |-> get_results(clf, likelihood, args["spikes"],
                             ArgOr(args, "is_compute_acausal", TRUE),
                             data_log_likelihood)]

\* SortedSpikesClassifier.predict(**args): the classifier after the call and
\* the results returned.
predict(clf, args, data_log_likelihood) ==
    PredictWith(clf, args, data_log_likelihood,
                PredictLikelihood(clf, args["spikes"]))

\* ---------------------------------------------------------------- estimate_parameters
\* The data log likelihoods the causal filter may return for the inputs of the
\* next pass: any value the first time, the same value for the same inputs.
LLVals == 0..MaxLL

OracleLL(clf) ==
    IF ResultsSrc(clf) \in DOMAIN oracle THEN {oracle[ResultsSrc(clf)]} ELSE LLVals

Remember(clf, ll) == (ResultsSrc(clf) :> ll) @@ oracle

\* Mutant: the keyword argument wins over predict_args.
StoreLikelihoodKeyword(args, keyword) == keyword

\* Lines 345-348.
StoreLikelihoodInEffect(args, keyword) ==
    IF "store_likelihood" \in DOMAIN args THEN args["store_likelihood"] ELSE keyword

PredictArgsAfterEntry(args, keyword) ==
    IF "store_likelihood" \in DOMAIN args THEN args
    ELSE ("store_likelihood" :> keyword) @@ args

Enter ==
    /\ pc = "call"
    /\ store_likelihood' = StoreLikelihoodInEffect(predict_args, call.store_likelihood)
    /\ predict_args' = PredictArgsAfterEntry(predict_args, call.store_likelihood)
    /\ pc' = "fit"
    /\ UNCHANGED <<self, call, results, data_log_likelihoods, converged, increasing,
                   n_iter, get_results_args, warned, n_fit, n_likelihood, pass_log,
                   oracle>>

\* Mutant: fit is not called; the first pass runs on the unfitted classifier.
FitSkipped ==
    /\ pc = "fit"
    /\ pc' = "predict"
    /\ UNCHANGED <<self, call, predict_args, store_likelihood, results,
                   data_log_likelihoods, converged, increasing, n_iter,
                   get_results_args, warned, n_fit, n_likelihood, pass_log, oracle>>

\* Line 350.
Fit ==
    /\ pc = "fit"
    /\ ~FitOutcome(self, call.fit_args).raised
    /\ self' = FitOutcome(self, call.fit_args).self
    /\ n_fit' = n_fit + 1
    /\ pc' = "predict"
    /\ UNCHANGED <<call, predict_args, store_likelihood, results, data_log_likelihoods,
                   converged, increasing, n_iter, get_results_args, warned,
                   n_likelihood, pass_log, oracle>>

\* Line 350 raising: the exception leaves estimate_parameters.
FitRaises ==
    /\ pc = "fit"
    /\ FitOutcome(self, call.fit_args).raised
    /\ self' = FitOutcome(self, call.fit_args).self
    /\ n_fit' = n_fit + 1
    /\ pc' = "raised"
    /\ UNCHANGED <<call, predict_args, store_likelihood, results, data_log_likelihoods,
                   converged, increasing, n_iter, get_results_args, warned,
                   n_likelihood, pass_log, oracle>>

\* Mutant: is_compute_acausal is not forwarded to the stored-likelihood path.
GetResultsArgsWithoutAcausal(args) ==
    [key \in DOMAIN args \cap {"time", "state_names", "use_gpu"} |-> args[key]]

\* Lines 361-365.
GetResultsArgs(args) ==
    [key \in DOMAIN args \cap {"time", "state_names", "use_gpu", "is_compute_acausal"}
        |-> args[key]]

InitialPredictWith(out) ==
    /\ self' = out.self
    /\ results' = out.results
    /\ data_log_likelihoods' = <<out.results.data_log_likelihood>>

\* Lines 351-365.
InitialPredict ==
    /\ pc = "predict"
    /\ ~GetResultsRaises(self, PredictLikelihood(self, predict_args["spikes"]),
                         predict_args["spikes"])
    /\ \E ll \in OracleLL(self) :
        /\ InitialPredictWith(predict(self, predict_args, ll))
        /\ oracle' = Remember(self, ll)
        /\ pass_log' = Append(pass_log, ll)
    /\ converged' = FALSE
    /\ increasing' = TRUE
    /\ n_iter' = 0
    /\ get_results_args' = GetResultsArgs(predict_args)
    /\ n_likelihood' = n_likelihood + 1
    /\ pc' = "loop"
    /\ UNCHANGED <<call, predict_args, store_likelihood, warned, n_fit>>

\* Line 351 raising: the likelihood is computed (and stored when asked), then
\* _get_results raises and the exception leaves estimate_parameters.
InitialPredictRaises ==
    /\ pc = "predict"
    /\ GetResultsRaises(self, PredictLikelihood(self, predict_args["spikes"]),
                        predict_args["spikes"])
    /\ self' = PredictStore(self, predict_args,
                            PredictLikelihood(self, predict_args["spikes"]))
    /\ n_likelihood' = n_likelihood + 1
    /\ pc' = "raised"
    /\ UNCHANGED <<call, predict_args, store_likelihood, results, data_log_likelihoods,
                   converged, increasing, n_iter, get_results_args, warned, n_fit,
                   pass_log, oracle>>

\* Mutants of the loop condition: one iteration too many; convergence ignored.
LoopGuardOffByOne(is_converged, iter, max_iter) == ~is_converged /\ iter <= max_iter

LoopGuardIgnoresConverged(is_converged, iter, max_iter) == iter < max_iter

\* Line 367: the loop condition.
LoopGuard(is_converged, iter, max_iter) == ~is_converged /\ iter < max_iter

\* Mutant: the causal (filtered) posterior at time 0 is taken instead.
UpdateInitialConditionsFromCausal(clf, res, estimate_initial_conditions) ==
    IF estimate_initial_conditions
    THEN [clf EXCEPT !.initial_conditions_ =
             [src |-> <<"causal0">> \o res.src, kind |-> res.causal_posterior[1]]]
    ELSE clf

\* Lines 368-371.
UpdateInitialConditions(clf, res, estimate_initial_conditions) ==
    IF estimate_initial_conditions
    THEN [clf EXCEPT !.initial_conditions_ =
             [src |-> <<"acausal0">> \o res.src, kind |-> res.acausal_posterior[1]]]
    ELSE clf

\* Mutant: the continuous kernels are re-estimated together with the matrix.
UpdateDiscreteTransitionAndKernels(clf, res, estimate_discrete_transition) ==
    IF estimate_discrete_transition
    THEN [clf EXCEPT
             !.discrete_state_transition_ = estimate_discrete_state_transition(clf, res),
             !.continuous_state_transition_.src = <<"cst_est">> \o res.src]
    ELSE clf

\* Mutant: the flag is ignored and the matrix is never re-estimated.
UpdateDiscreteTransitionSkipped(clf, res, estimate_discrete_transition) == clf

\* Lines 372-375.
UpdateDiscreteTransition(clf, res, estimate_discrete_transition) ==
    IF estimate_discrete_transition
    THEN [clf EXCEPT !.discrete_state_transition_ =
             estimate_discrete_state_transition(clf, res)]
    ELSE clf

\* Lines 368-375: the parameters re-estimated from the previous results.
UpdateParameters(clf, res, estimate_initial_conditions, estimate_discrete_transition) ==
    UpdateDiscreteTransition(
        UpdateInitialConditions(clf, res, estimate_initial_conditions),
        res, estimate_discrete_transition)

\* Lines 368-375 fail when they read an acausal posterior that was not computed.
UpdateRaises(res, estimate_initial_conditions, estimate_discrete_transition) ==
    (estimate_initial_conditions \/ estimate_discrete_transition) /\ ~res.has_acausal

\* Lines 377-382: the filter/smooth pass of one iteration.
IterationPass(clf, store, args, forwarded, data_log_likelihood) ==
    IF store
    THEN [self |-> clf,
          results |-> get_results(clf, clf.likelihood_, args["spikes"],
                                  ArgOr(forwarded, "is_compute_acausal", TRUE),
                                  data_log_likelihood)]
    ELSE predict(clf, args, data_log_likelihood)

\* Mutant: the best results so far are kept instead of the latest.
IterateWithKeepsBest(out) ==
    /\ self' = out.self
    /\ results' = IF out.results.data_log_likelihood < results.data_log_likelihood
                  THEN results ELSE out.results
    /\ data_log_likelihoods' =
           Append(data_log_likelihoods, out.results.data_log_likelihood)
    /\ converged' = check_converged(out.results.data_log_likelihood,
                                    Last(data_log_likelihoods),
                                    call.tolerance).converged
    /\ increasing' = check_converged(out.results.data_log_likelihood,
                                     Last(data_log_likelihoods),
                                     call.tolerance).increasing
    /\ n_iter' = n_iter + 1

\* Mutant: only the latest log likelihood is kept.
IterateWithOverwritesLast(out) ==
    /\ self' = out.self
    /\ results' = out.results
    /\ data_log_likelihoods' = <<out.results.data_log_likelihood>>
    /\ converged' = check_converged(out.results.data_log_likelihood,
                                    Last(data_log_likelihoods),
                                    call.tolerance).converged
    /\ increasing' = check_converged(out.results.data_log_likelihood,
                                     Last(data_log_likelihoods),
                                     call.tolerance).increasing
    /\ n_iter' = n_iter + 1

\* Lines 384-390, with the results of the pass.
IterateWith(out) ==
    /\ self' = out.self
    /\ results' = out.results
    /\ data_log_likelihoods' =
           Append(data_log_likelihoods, out.results.data_log_likelihood)
    /\ converged' = check_converged(out.results.data_log_likelihood,
                                    Last(data_log_likelihoods),
                                    call.tolerance).converged
    /\ increasing' = check_converged(out.results.data_log_likelihood,
                                     Last(data_log_likelihoods),
                                     call.tolerance).increasing
    /\ n_iter' = n_iter + 1

\* Lines 377-390, with the parameters updated by lines 368-375.
IterateFrom(updated) ==
    \E ll \in OracleLL(updated) :
        /\ IterateWith(IterationPass(updated, store_likelihood, predict_args,
                                     get_results_args, ll))
        /\ oracle' = Remember(updated, ll)
        /\ pass_log' = Append(pass_log, ll)

\* Lines 377-382 raise: the pass of the iteration fails in _get_results.
PassRaises(clf, store, args) ==
    GetResultsRaises(clf,
                     IF store THEN clf.likelihood_
                     ELSE PredictLikelihood(clf, args["spikes"]),
                     args["spikes"])

\* Lines 367-397: one iteration of the loop.
Iterate ==
    /\ pc = "loop"
    /\ LoopGuard(converged, n_iter, call.max_iter)
    /\ ~UpdateRaises(results, call.estimate_initial_conditions,
                     call.estimate_discrete_transition)
    /\ ~PassRaises(UpdateParameters(self, results, call.estimate_initial_conditions,
                                    call.estimate_discrete_transition),
                   store_likelihood, predict_args)
    /\ IterateFrom(UpdateParameters(self, results, call.estimate_initial_conditions,
                                    call.estimate_discrete_transition))
    /\ n_likelihood' = IF store_likelihood THEN n_likelihood ELSE n_likelihood + 1
    /\ UNCHANGED <<call, predict_args, pc, store_likelihood, get_results_args, warned,
                   n_fit>>

\* Lines 368-375 raising: the exception leaves estimate_parameters.
IterateRaises ==
    /\ pc = "loop"
    /\ LoopGuard(converged, n_iter, call.max_iter)
    /\ UpdateRaises(results, call.estimate_initial_conditions,
                    call.estimate_discrete_transition)
    /\ pc' = "raised"
    /\ UNCHANGED <<self, call, predict_args, store_likelihood, results,
                   data_log_likelihoods, converged, increasing, n_iter,
                   get_results_args, warned, n_fit, n_likelihood, pass_log, oracle>>

\* Lines 377-382 raising, with the parameters updated by lines 368-375: the
\* updated parameters stay on the classifier and the exception leaves
\* estimate_parameters.
IteratePassRaisesFrom(updated) ==
    /\ PassRaises(updated, store_likelihood, predict_args)
    /\ self' = IF store_likelihood
               THEN updated
               ELSE PredictStore(updated, predict_args,
                                 PredictLikelihood(updated, predict_args["spikes"]))

IteratePassRaises ==
    /\ pc = "loop"
    /\ LoopGuard(converged, n_iter, call.max_iter)
    /\ ~UpdateRaises(results, call.estimate_initial_conditions,
                     call.estimate_discrete_transition)
    /\ IteratePassRaisesFrom(UpdateParameters(self, results,
                                              call.estimate_initial_conditions,
                                              call.estimate_discrete_transition))
    /\ n_likelihood' = IF store_likelihood THEN n_likelihood ELSE n_likelihood + 1
    /\ pc' = "raised"
    /\ UNCHANGED <<call, predict_args, store_likelihood, results, data_log_likelihoods,
                   converged, increasing, n_iter, get_results_args, warned, n_fit,
                   pass_log, oracle>>

\* Mutant: the warning ignores whether the loop converged.
MaxIterationsReachedIgnoresConverged(is_converged, iter, max_iter) == iter = max_iter

\* Line 399: the condition of the warning.
MaxIterationsReached(is_converged, iter, max_iter) == ~is_converged /\ iter = max_iter

\* Lines 399-402.
Return ==
    /\ pc = "loop"
    /\ ~LoopGuard(converged, n_iter, call.max_iter)
    /\ warned' = MaxIterationsReached(converged, n_iter, call.max_iter)
    /\ pc' = "returned"
    /\ UNCHANGED <<self, call, predict_args, store_likelihood, results,
                   data_log_likelihoods, converged, increasing, n_iter,
                   get_results_args, n_fit, n_likelihood, pass_log, oracle>>

\* ---------------------------------------------------------------- inputs
EnvironmentNames == <<"a", "b">>

\* The grids of the environments: one environment of MaxBins bins, or two
\* environments of different sizes (the smaller one is padded).
Layouts ==
    {<<m>> : m \in Masks(MaxBins)}
        \cup {<<m, [b \in 1..(MaxBins - 1) |-> TRUE]>> : m \in Masks(MaxBins)}

\* One grid with a non-interior bin, and one pair of grids.
LoopLayouts ==
    {<<[b \in 1..MaxBins |-> b # 1]>>,
     <<[b \in 1..MaxBins |-> b # 1], [b \in 1..(MaxBins - 1) |-> TRUE]>>}

\* The predict_args dicts tried: spikes (its n_time) and the optional keys.
PredictArgsWith(optional_keys) ==
    {("spikes" :> NTime) @@ extra :
        extra \in UNION {[keys -> BOOLEAN] : keys \in SUBSET optional_keys}}

Tolerances == {1, 2}

\* The state after construction, when estimate_parameters is called.
InitWith(layouts, state_counts, predict_args_choices, tolerances, max_iters) ==
    /\ \E layout \in layouts, n_states \in state_counts :
        LET names == SubSeq(EnvironmentNames, 1, Len(layout))
            observation_models ==
                [s \in 1..n_states |-> names[IF s <= Len(names) THEN s ELSE Len(names)]]
            continuous_transition_types ==
                [i \in 1..n_states |-> [j \in 1..n_states |-> observation_models[i]]]
        IN  /\ self = ClassifierInit(names, observation_models,
                                     continuous_transition_types)
            /\ \E pa \in predict_args_choices, tol \in tolerances,
                  mi \in max_iters, sl \in BOOLEAN, eic \in BOOLEAN, edt \in BOOLEAN :
                /\ call = [fit_args |-> [layout |-> layout, position_dims |-> 1],
                           predict_args |-> pa,
                           tolerance |-> tol,
                           max_iter |-> mi,
                           store_likelihood |-> sl,
                           estimate_initial_conditions |-> eic,
                           estimate_discrete_transition |-> edt]
                /\ predict_args = pa
    /\ pc = "call"
    /\ store_likelihood = FALSE
    /\ results = NoResults
    /\ data_log_likelihoods = <<>>
    /\ converged = FALSE
    /\ increasing = TRUE
    /\ n_iter = 0
    /\ get_results_args = [key \in {} |-> FALSE]
    /\ warned = FALSE
    /\ n_fit = 0
    /\ n_likelihood = 0
    /\ pass_log = <<>>
    /\ oracle = [term \in {} |-> 0]

Next == Enter \/ Fit \/ InitialPredict \/ Iterate \/ IterateRaises \/ Return

\* The refinement loop: every call configuration on two fixed grids.
Init ==
    InitWith(LoopLayouts, {MaxStates},
             PredictArgsWith({"store_likelihood", "is_compute_acausal"}),
             Tolerances, 0..MaxIter)

Spec == Init /\ [][Next]_vars

\* One pass and at most one refinement iteration on every grid.
GridInit ==
    InitWith(Layouts, 1..MaxStates, PredictArgsWith({"is_compute_acausal"}),
             {1}, {0, 1})

GridSpec == GridInit /\ [][Next]_vars

\* Calls that fail: the observation models may name an environment the
\* classifier does not hold, and their number may differ from the number of
\* continuous transition types.
ModelNames == <<"a", "b", "c">>

ErrorInit ==
    /\ \E layout \in LoopLayouts, n_models \in 1..MaxStates, n_states \in 1..MaxStates :
        \E observation_models \in [1..n_models -> {ModelNames[k] : k \in 1..3}] :
            /\ self = ClassifierInit(
                          SubSeq(EnvironmentNames, 1, Len(layout)),
                          observation_models,
                          [i \in 1..n_states |-> [j \in 1..n_states |-> "a"]])
            /\ \E pa \in PredictArgsWith({"store_likelihood", "is_compute_acausal"}),
                  mi \in {0, 1},
                  eic \in BOOLEAN :
                /\ call = [fit_args |-> [layout |-> layout, position_dims |-> 1],
                           predict_args |-> pa,
                           tolerance |-> 1,
                           max_iter |-> mi,
                           store_likelihood |-> FALSE,
                           estimate_initial_conditions |-> eic,
                           estimate_discrete_transition |-> FALSE]
                /\ predict_args = pa
    /\ pc = "call"
    /\ store_likelihood = FALSE
    /\ results = NoResults
    /\ data_log_likelihoods = <<>>
    /\ converged = FALSE
    /\ increasing = TRUE
    /\ n_iter = 0
    /\ get_results_args = [key \in {} |-> FALSE]
    /\ warned = FALSE
    /\ n_fit = 0
    /\ n_likelihood = 0
    /\ pass_log = <<>>
    /\ oracle = [term \in {} |-> 0]

ErrorNext == Next \/ FitRaises \/ InitialPredictRaises

ErrorSpec == ErrorInit /\ [][ErrorNext]_vars

\* Grids with one and with two position dimensions: one environment, and a
\* pair of environments.
PlaneInit ==
    /\ \E layout \in LoopLayouts, position_dims \in {1, 2} :
        LET names == SubSeq(EnvironmentNames, 1, Len(layout))
            observation_models ==
                [s \in 1..MaxStates |-> names[IF s <= Len(names) THEN s ELSE Len(names)]]
            continuous_transition_types ==
                [i \in 1..MaxStates |-> [j \in 1..MaxStates |-> observation_models[i]]]
        IN  /\ self = ClassifierInit(names, observation_models,
                                     continuous_transition_types)
            /\ \E pa \in PredictArgsWith({"is_compute_acausal"}),
                  mi \in 0..MaxIter, sl \in BOOLEAN, eic \in BOOLEAN, edt \in BOOLEAN :
                /\ call = [fit_args |-> [layout |-> layout,
                                         position_dims |-> position_dims],
                           predict_args |-> pa,
                           tolerance |-> 1,
                           max_iter |-> mi,
                           store_likelihood |-> sl,
                           estimate_initial_conditions |-> eic,
                           estimate_discrete_transition |-> edt]
                /\ predict_args = pa
    /\ pc = "call"
    /\ store_likelihood = FALSE
    /\ results = NoResults
    /\ data_log_likelihoods = <<>>
    /\ converged = FALSE
    /\ increasing = TRUE
    /\ n_iter = 0
    /\ get_results_args = [key \in {} |-> FALSE]
    /\ warned = FALSE
    /\ n_fit = 0
    /\ n_likelihood = 0
    /\ pass_log = <<>>
    /\ oracle = [term \in {} |-> 0]

PlaneNext == Next \/ IteratePassRaises

PlaneSpec == PlaneInit /\ [][PlaneNext]_vars

\* ---------------------------------------------------------------- properties
Started == pc \in {"loop", "returned", "raised"}

\* The call asks for a refinement that needs the acausal posterior, and
\* predict_args switches the acausal posterior off.
MissingAcausal ==
    /\ call.max_iter >= 1
    /\ call.estimate_initial_conditions \/ call.estimate_discrete_transition
    /\ ~ArgOr(call.predict_args, "is_compute_acausal", TRUE)

\* The number of steps estimate_parameters can still take: every step of the
\* call lowers it, and it is never negative.
StepsLeft ==
    CASE pc = "call" -> call.max_iter + 4
      [] pc = "fit" -> call.max_iter + 3
      [] pc = "predict" -> call.max_iter + 2
      [] pc = "loop" -> call.max_iter - n_iter + 1
      [] OTHER -> 0

C2_StopsOnDecrease ==
    \A i \in 2..Len(pass_log) : pass_log[i] < pass_log[i - 1] => i = Len(pass_log)

\* C3 (as claimed): the log likelihood of the returned result is the maximum
\* of the returned log likelihood sequence.
C3_ReturnsBest ==
    pc = "returned" =>
        \A i \in 1..Len(data_log_likelihoods) :
            data_log_likelihoods[i] <= results.data_log_likelihood

\* C3 (amended): the returned result is the one of the last pass, computed
\* from the parameters the classifier holds on return; its log likelihood is
\* the last entry of the returned sequence, also when that entry is lower
\* than an earlier one.
C3_ReturnsLast ==
    pc = "returned" =>
        /\ results.data_log_likelihood = Last(data_log_likelihoods)
        /\ results.data_log_likelihood = Last(pass_log)
        /\ results.src = ResultsSrc(self)

C3_Witness ==
    /\ pc = "returned"
    /\ Len(data_log_likelihoods) >= 2
    /\ Last(data_log_likelihoods) < data_log_likelihoods[Len(data_log_likelihoods) - 1]

\* C4: once the convergence check on the two most recent log likelihoods
\* reports convergence, the next step returns: no parameter is updated and no
\* further filter/smooth pass is run.
C4_NoIterationAfterConvergence ==
    [][(/\ pc = "loop"
        /\ Len(data_log_likelihoods) >= 2
        /\ check_converged(Last(data_log_likelihoods),
                           data_log_likelihoods[Len(data_log_likelihoods) - 1],
                           call.tolerance).converged)
       => (/\ pc' = "returned"
           /\ self' = self
           /\ n_iter' = n_iter
           /\ pass_log' = pass_log
           /\ results' = results)]_vars

C4_Witness ==
    /\ pc = "returned"
    /\ converged
    /\ n_iter >= 1
    /\ n_iter < call.max_iter
    /\ call.estimate_initial_conditions

C6_WarningOnlyAtCap ==
    /\ pc = "returned" =>
        /\ warned <=> (~converged /\ n_iter = call.max_iter)
        /\ results.data_log_likelihood = Last(data_log_likelihoods)
        /\ Len(data_log_likelihoods) = n_iter + 1
    /\ pc # "returned" => ~warned

C6_Witness ==
    /\ pc = "returned"
    /\ warned
    /\ n_iter >= 1
    /\ Len(data_log_likelihoods) = n_iter + 1
    /\ Last(data_log_likelihoods) > data_log_likelihoods[1]

\* C7: from the end of fit until estimate_parameters returns, the continuous
\* transition kernels hold the value fit built, whatever the flags.
C7_KernelsUnchanged ==
    [][pc \notin {"call", "fit"} =>
        /\ self'.continuous_state_transition_ = self.continuous_state_transition_
        /\ self'.continuous_state_transition_.src = <<"cst_fit">>]_vars

C7_Witness ==
    /\ pc = "returned"
    /\ n_iter >= 2
    /\ call.estimate_initial_conditions
    /\ call.estimate_discrete_transition
    /\ store_likelihood

\* What the filter receives of an initial distribution: its interior bins in
\* single-environment mode, all of it otherwise.
InteriorOf(clf, initial_conditions) ==
    IF Len(clf.environments) = 1
    THEN [src |-> initial_conditions.src,
          kind |-> [s \in DOMAIN initial_conditions.kind |->
                      Take(initial_conditions.kind[s],
                           clf.environments[1].is_track_interior_)]]
    ELSE initial_conditions

\* C8: in a refinement iteration with estimate_initial_conditions true the
\* initial distribution the pass uses is the acausal posterior at time index 0
\* of the previous pass; with the flag false it stays the one built by fit.
C8_InitialConditionsFromAcausal ==
    [][(pc = "loop" /\ n_iter' = n_iter + 1) =>
        IF call.estimate_initial_conditions
        THEN results'.inputs.initial_conditions =
                 InteriorOf(self, [src |-> <<"acausal0">> \o results.src,
                                   kind |-> results.acausal_posterior[1]])
        ELSE /\ self'.initial_conditions_ = self.initial_conditions_
             /\ self'.initial_conditions_.src = <<"ic_fit">>
             /\ results'.inputs.initial_conditions =
                    InteriorOf(self, self.initial_conditions_)]_vars

C8_Witness ==
    /\ n_iter >= 2
    /\ call.estimate_initial_conditions
    /\ Len(self.environments) = 1
    /\ results.inputs.initial_conditions.src[1] = "acausal0"

\* C9: in a refinement iteration with estimate_discrete_transition true the
\* discrete transition matrix is replaced by the estimate from the previous
\* results and the pass of that iteration uses the replaced matrix with the
\* unchanged continuous kernels; with the flag false the matrix stays the one
\* built by fit.
C9_DiscreteTransitionReplaced ==
    [][(pc = "loop" /\ n_iter' = n_iter + 1) =>
        /\ IF call.estimate_discrete_transition
           THEN self'.discrete_state_transition_ =
                    [src |-> <<"dst_est">> \o results.src,
                     n |-> self.discrete_state_transition_.n,
                     rows |-> self.discrete_state_transition_.rows]
           ELSE /\ self'.discrete_state_transition_ = self.discrete_state_transition_
                /\ self'.discrete_state_transition_.src = <<"dst_fit">>
        /\ results'.inputs.discrete = self'.discrete_state_transition_
        /\ results'.inputs.continuous = results.inputs.continuous
        /\ results'.inputs.continuous.src = <<"cst_fit">>]_vars

C9_Witness ==
    /\ n_iter >= 2
    /\ call.estimate_discrete_transition
    /\ results.inputs.discrete.src[1] = "dst_est"
    /\ results.inputs.continuous.src = <<"cst_fit">>

\* The entries of a posterior (n_time, n_states, n_bins) are, at the interior
\* bins, the entries of computed in order, and outside the given value.
PosteriorIs(posterior, computed, is_track_interior, outside) ==
    /\ Len(posterior) = Len(computed)
    /\ \A t \in DOMAIN posterior :
        /\ Len(posterior[t]) = Len(computed[t])
        /\ \A s \in DOMAIN posterior[t] :
            /\ Len(posterior[t][s]) = Len(is_track_interior)
            /\ \A b \in DOMAIN posterior[t][s] :
                posterior[t][s][b] =
                    IF is_track_interior[b]
                    THEN computed[t][s][Cardinality({c \in 1..b : is_track_interior[c]})]
                    ELSE outside

PosteriorsAre(res, is_track_interior, outside) ==
    /\ PosteriorIs(res.causal_posterior,
                   compute_causal(res.inputs.initial_conditions.kind,
                                  res.inputs.continuous.kind, res.inputs.discrete,
                                  res.inputs.likelihood),
                   is_track_interior, outside)
    /\ res.has_acausal =>
        PosteriorIs(res.acausal_posterior,
                    compute_acausal(Take3(res.causal_posterior, is_track_interior),
                                    res.inputs.continuous.kind, res.inputs.discrete),
                    is_track_interior, outside)

\* C10 (as claimed): in single-environment mode the causal and acausal
\* posterior values returned at every non-interior bin are exactly 0, and the
\* values at interior bins are those computed by the filter/smoother.
C10_NonInteriorZero ==
    (Started /\ Len(self.environments) = 1) =>
        PosteriorsAre(results, self.environments[1].is_track_interior_, Zero)

\* C10 (amended): in single-environment mode the causal and acausal posterior
\* values returned at every non-interior bin are NaN, for every time step and
\* every state, and the values at interior bins are those computed by the
\* filter/smoother.
C10_NonInteriorNaN ==
    (Started /\ Len(self.environments) = 1) =>
        PosteriorsAre(results, self.environments[1].is_track_interior_, NaN)

C10_Witness ==
    /\ pc = "returned"
    /\ n_iter = 1
    /\ Len(self.environments) = 1
    /\ \E b \in DOMAIN self.environments[1].is_track_interior_ :
        /\ ~self.environments[1].is_track_interior_[b]
        /\ results.causal_posterior[NTime][self.discrete_state_transition_.n][b] = NaN
    /\ results.has_acausal

\* C11 (as claimed): the initial distribution the classifier holds is, at every
\* point where a filter/smooth pass reads it, a distribution over the full
\* joint state: every entry is a nonnegative number (none is NaN), the entries
\* of non-interior bins included.
C11_InitialConditionsNormalized ==
    Started =>
        \A s \in DOMAIN self.initial_conditions_.kind :
            \A b \in DOMAIN self.initial_conditions_.kind[s] :
                self.initial_conditions_.kind[s][b] # NaN

\* Every row of a discrete transition matrix is a probability distribution.
RowStochastic(matrix) ==
    /\ Len(matrix.rows) = matrix.n
    /\ \A i \in DOMAIN matrix.rows : matrix.rows[i] = Stochastic

RestrictedTo(row, whole, where) ==
    /\ Len(row) = Len(where)
    /\ \A k \in DOMAIN row : row[k] = whole[where[k]] /\ row[k] # NaN

\* The arrays a single-environment pass handed to the filter and the smoother
\* are the classifier's arrays at the interior bins where, and nothing else.
InteriorOnly(clf, res, where) ==
    /\ \A s \in DOMAIN clf.initial_conditions_.kind :
        RestrictedTo(res.inputs.initial_conditions.kind[s],
                     clf.initial_conditions_.kind[s], where)
    /\ \A i \in DOMAIN clf.continuous_state_transition_.kind :
        \A j \in DOMAIN clf.continuous_state_transition_.kind[i] :
            /\ Len(res.inputs.continuous.kind[i][j]) = Len(where)
            /\ \A k \in DOMAIN where :
                RestrictedTo(res.inputs.continuous.kind[i][j][k],
                             clf.continuous_state_transition_.kind[i][j][where[k]],
                             where)
    /\ \A t \in DOMAIN res.likelihood : \A s \in DOMAIN res.likelihood[t] :
        /\ RestrictedTo(res.inputs.likelihood[t][s], res.likelihood[t][s], where)
        /\ \A k \in DOMAIN where :
            /\ res.causal_posterior[t][s][where[k]] = Val
            /\ res.has_acausal => res.acausal_posterior[t][s][where[k]] = Val
    /\ Len(res.inputs.initial_conditions.kind) = Len(clf.initial_conditions_.kind)
    /\ Len(res.inputs.likelihood) = NTime

\* C13: in single-environment mode the initial distribution, both bin axes of
\* the continuous kernels, the likelihood and the causal posterior handed to
\* the causal and acausal computations are restricted with the interior mask
\* of the environment: they hold the interior entries only, so no value of a
\* non-interior bin (a NaN in particular) takes part in the computation.
C13_InteriorOnlyInputs ==
    (Started /\ Len(self.environments) = 1) =>
        InteriorOnly(self, results, Where(self.environments[1].is_track_interior_, 1))

C13_Witness ==
    /\ pc = "returned"
    /\ Len(self.environments) = 1
    /\ n_iter = 1
    /\ call.estimate_initial_conditions
    /\ results.has_acausal
    /\ \E b \in DOMAIN self.environments[1].is_track_interior_ :
        /\ ~self.environments[1].is_track_interior_[b]
        /\ self.initial_conditions_.kind[1][b] = NaN
    /\ Len(results.inputs.initial_conditions.kind[1]) = MaxBins - 1

\* The number of bins of the environment an observation model or a transition
\* type names.
BinsOf(clf, name) ==
    Len(clf.environments[EnvIndex(clf.environments, name)].is_track_interior_)

\* Every bin axis has the bin count of the largest environment, and the
\* entries past the bins of a state's own environment are zero.
PaddedToLargest(clf, res) ==
    /\ \A s \in DOMAIN clf.initial_conditions_.kind :
        /\ Len(clf.initial_conditions_.kind[s]) = clf.max_pos_bins_
        /\ clf.initial_conditions_.src = <<"ic_fit">> =>
            \A b \in (BinsOf(clf, clf.observation_models[s]) + 1)..clf.max_pos_bins_ :
                clf.initial_conditions_.kind[s][b] = Zero
    /\ \A i \in DOMAIN clf.continuous_state_transition_.kind :
        \A j \in DOMAIN clf.continuous_state_transition_.kind[i] :
            /\ Len(clf.continuous_state_transition_.kind[i][j]) = clf.max_pos_bins_
            /\ \A b \in 1..clf.max_pos_bins_ :
                /\ Len(clf.continuous_state_transition_.kind[i][j][b]) = clf.max_pos_bins_
                /\ \A c \in 1..clf.max_pos_bins_ :
                    (\/ b > BinsOf(clf, clf.continuous_transition_types[i][j])
                     \/ c > BinsOf(clf, clf.continuous_transition_types[i][j]))
                        => clf.continuous_state_transition_.kind[i][j][b][c] = Zero
    /\ \A t \in DOMAIN res.likelihood : \A s \in DOMAIN res.likelihood[t] :
        /\ Len(res.likelihood[t][s]) = clf.max_pos_bins_
        /\ Len(res.causal_posterior[t][s]) = clf.max_pos_bins_
        /\ res.has_acausal => Len(res.acausal_posterior[t][s]) = clf.max_pos_bins_
        /\ \A b \in 1..clf.max_pos_bins_ :
            /\ res.likelihood[t][s][b] # NaN
            /\ b > BinsOf(clf, clf.observation_models[s])
                => res.likelihood[t][s][b] = Zero

\* The pass received the classifier's arrays and the likelihood array whole,
\* and returned what the filter and the smoother computed, unmasked.
PassedWhole(clf, res) ==
    /\ res.inputs.initial_conditions = clf.initial_conditions_
    /\ res.inputs.continuous = clf.continuous_state_transition_
    /\ res.inputs.likelihood = res.likelihood
    /\ res.causal_posterior =
           compute_causal(res.inputs.initial_conditions.kind, res.inputs.continuous.kind,
                          res.inputs.discrete, res.inputs.likelihood)
    /\ res.has_acausal =>
           res.acausal_posterior =
               compute_acausal(res.causal_posterior, res.inputs.continuous.kind,
                               res.inputs.discrete)

\* C14: the multi-environment mode is taken exactly when the classifier holds
\* more than one environment. In that mode no interior mask is applied: the
\* initial distribution, the kernels and the likelihood, each padded with
\* zeros to the bin count of the largest environment, are passed whole to the
\* causal and acausal computations, and the posteriors are returned over the
\* padded bin axis. With one environment the arrays are cut to the interior.
C14_MultiEnvironmentWhole ==
    Started =>
        IF Len(self.environments) > 1
        THEN PassedWhole(self, results) /\ PaddedToLargest(self, results)
        ELSE \A s \in DOMAIN results.inputs.initial_conditions.kind :
                Len(results.inputs.initial_conditions.kind[s])
                    = Len(Where(self.environments[1].is_track_interior_, 1))

C14_Witness ==
    /\ pc = "returned"
    /\ Len(self.environments) = 2
    /\ Len(self.observation_models) = 2
    /\ BinsOf(self, self.observation_models[2]) < self.max_pos_bins_
    /\ \E b \in DOMAIN self.environments[1].is_track_interior_ :
        ~self.environments[1].is_track_interior_[b]
    /\ results.has_acausal
    /\ results.likelihood[NTime][2][self.max_pos_bins_] = Zero
    /\ Len(results.acausal_posterior[NTime][2]) = MaxBins

Fitted == pc \in {"predict", "loop", "returned", "raised"}

\* C15 (as claimed): a continuous transition kernel whose shape differs from
\* (bin count x bin count) is never stored: after fit every kernel was built
\* with the bin count of the classifier.
C15_ShapeMismatchRaises ==
    Fitted =>
        \A i \in DOMAIN self.continuous_transition_types :
            \A j \in DOMAIN self.continuous_transition_types[i] :
                BinsOf(self, self.continuous_transition_types[i][j]) = self.max_pos_bins_

\* The kernel holds what make_state_transition built in its leading
\* n_bins x n_bins block and zeros in the rest of its size x size entries.
ZeroPadded(kernel, n_bins, size) ==
    /\ Len(kernel) = size
    /\ \A b \in 1..size :
        /\ Len(kernel[b]) = size
        /\ \A c \in 1..size :
            kernel[b][c] = IF b <= n_bins /\ c <= n_bins THEN Val ELSE Zero

\* C15 (amended): fit_continuous_state_transition raises no error for a kernel
\* smaller than the bin count of the classifier: the kernel is stored in the
\* leading block of a zero-filled (max_pos_bins_ x max_pos_bins_) array, and
\* fit goes on to the prediction.
C15_SmallerKernelZeroPadded ==
    Fitted =>
        /\ self.continuous_state_transition_.src = <<"cst_fit">>
        /\ Len(self.continuous_state_transition_.kind)
               = Len(self.continuous_transition_types)
        /\ \A i \in DOMAIN self.continuous_transition_types :
            \A j \in DOMAIN self.continuous_transition_types[i] :
                ZeroPadded(self.continuous_state_transition_.kind[i][j],
                           BinsOf(self, self.continuous_transition_types[i][j]),
                           self.max_pos_bins_)

C15_Witness ==
    /\ pc = "loop"
    /\ \E i \in DOMAIN self.continuous_transition_types :
        /\ BinsOf(self, self.continuous_transition_types[i][i]) < self.max_pos_bins_
        /\ self.continuous_state_transition_.kind[i][i][MaxBins][MaxBins] = Zero
        /\ self.continuous_state_transition_.kind[i][i][1][1] = Val
    /\ Len(results.causal_posterior) = NTime

\* The constructor was given a number of observation models that differs from
\* the number of continuous transition types: the arrays fit builds disagree
\* on the regime count.
InconsistentShapes ==
    Len(self.observation_models) # Len(self.continuous_transition_types)

DefinedLikelihood(clf, s, b) ==
    /\ b <= BinsOf(clf, clf.observation_models[s])
    /\ clf.environments[EnvIndex(clf.environments, clf.observation_models[s])]
           .is_track_interior_[b]

\* C18: the likelihood array handed to the causal computation contains no
\* NaN: every undefined entry (NaN in the raw likelihood, or a padded bin no
\* likelihood source filled) is 0 and every defined entry keeps its scaled
\* value. In single-environment mode the array is the interior cut of it.
C18_LikelihoodWithoutNaN ==
    Started =>
        \A t \in DOMAIN results.inputs.likelihood :
            \A s \in DOMAIN results.inputs.likelihood[t] :
                IF Len(self.environments) = 1
                THEN \A b \in DOMAIN results.inputs.likelihood[t][s] :
                        results.inputs.likelihood[t][s][b] = Val
                ELSE /\ Len(results.inputs.likelihood[t][s]) = self.max_pos_bins_
                     /\ \A b \in DOMAIN results.inputs.likelihood[t][s] :
                        results.inputs.likelihood[t][s][b] =
                            IF DefinedLikelihood(self, s, b) THEN Val ELSE Zero

C18_Witness ==
    /\ pc = "returned"
    /\ Len(self.environments) = 2
    /\ Len(self.observation_models) = 2
    /\ results.inputs.likelihood[1][2][MaxBins] = Zero
    /\ \E b \in 1..MaxBins :
        /\ ~self.environments[1].is_track_interior_[b]
        /\ results.inputs.likelihood[1][1][b] = Zero
    /\ \E b \in 1..MaxBins : results.inputs.likelihood[1][1][b] = Val

\* C19: predict called with store_likelihood false leaves the classifier as it
\* was (initial conditions, discrete matrix, kernels, and no likelihood
\* persisted), so two successive predict calls with identical inputs on the
\* same fitted classifier return identical posteriors and data log likelihood:
\* the first pass does not change the classifier, and a refinement iteration
\* that updates no parameter changes neither the classifier nor the results.
C19_PredictIsPure ==
    [][(~store_likelihood /\ pc' # "raised") =>
        /\ (pc = "predict" /\ pc' = "loop") => self' = self
        /\ (pc = "loop" /\ n_iter' = n_iter + 1) =>
            /\ self'.likelihood_ = self.likelihood_
            /\ self'.continuous_state_transition_ = self.continuous_state_transition_
            /\ self'.place_fields_ = self.place_fields_
            /\ self'.environments = self.environments
            /\ (~call.estimate_initial_conditions /\ ~call.estimate_discrete_transition)
                => (self' = self /\ results' = results)]_vars

C19_Witness ==
    /\ pc = "returned"
    /\ ~store_likelihood
    /\ ~call.estimate_initial_conditions
    /\ ~call.estimate_discrete_transition
    /\ n_iter = 1
    /\ n_likelihood = 2
    /\ pass_log[1] = pass_log[2]
    /\ self.likelihood_ = NoLikelihood
    /\ results.has_acausal

\* C20 (as claimed): after estimate_parameters returns, the predict_args
\* dictionary passed by the caller holds exactly the keys and values it held
\* before the call.
C20_CallerArgsUnchanged ==
    pc = "returned" => predict_args = call.predict_args

\* C21 (as claimed): after fit, the initial distribution, the discrete
\* transition matrix and both regime axes of the continuous kernel array have
\* the same n_states, for every constructor configuration.
C21_OneRegimeCount ==
    pc \in {"predict", "loop", "returned"} =>
        /\ Len(self.initial_conditions_.kind) = self.discrete_state_transition_.n
        /\ Len(self.continuous_state_transition_.kind) = self.discrete_state_transition_.n
        /\ \A i \in DOMAIN self.continuous_state_transition_.kind :
            Len(self.continuous_state_transition_.kind[i])
                = self.discrete_state_transition_.n

\* The layout fit gives initial_conditions_: (n_states, n_bins, 1), one flat bin
\* axis as long as the largest grid.
FlatLayout(clf) ==
    /\ Len(clf.initial_conditions_.kind) = Len(clf.observation_models)
    /\ \A s \in DOMAIN clf.initial_conditions_.kind :
        /\ Len(clf.initial_conditions_.kind[s]) = clf.max_pos_bins_
        /\ \A b \in DOMAIN clf.initial_conditions_.kind[s] :
            clf.initial_conditions_.kind[s][b] \in {NaN, Zero, Val}

\* C22 (as claimed): once the refinement loop has overwritten the initial
\* distribution with the smoothed posterior at time 0, initial_conditions_
\* still has the flat layout fit gave it, with one position dimension and
\* with two.
C22_OverwriteKeepsLayout ==
    (Started /\ self.initial_conditions_.src[1] = "acausal0") => FlatLayout(self)

\* C22: with one position dimension, and with several environments, the
\* overwrite does keep the flat layout.
C22_FlatWhenOneDimension ==
    (/\ Started
     /\ self.initial_conditions_.src[1] = "acausal0"
     /\ (call.fit_args.position_dims = 1 \/ Len(self.environments) > 1))
        => FlatLayout(self)

\* The environments, the continuous kernels and the emission model of two
\* classifiers are the same.
SameModel(clf, fitted) ==
    /\ clf.environments = fitted.environments
    /\ clf.continuous_state_transition_ = fitted.continuous_state_transition_
    /\ clf.place_fields_ = fitted.place_fields_

\* C23: estimate_parameters calls fit exactly once, before the first
\* filter/smooth pass, and no refinement iteration calls it again: from the
\* first pass on the count of fit calls is 1, and the environments, the
\* continuous kernels and the emission model are the ones that fit built.
C23_FitOnceBeforeFirstPass ==
    /\ pc \in {"call", "fit"} => (n_fit = 0 /\ pass_log = <<>>)
    /\ pc \in {"predict", "loop", "returned", "raised"} =>
        (n_fit = 1 /\ SameModel(self, fit(self, call.fit_args)))

C23_Witness ==
    /\ pc = "returned"
    /\ n_iter = MaxIter
    /\ Len(pass_log) = MaxIter + 1
    /\ call.estimate_initial_conditions
    /\ call.estimate_discrete_transition
    /\ n_fit = 1

\* C24: the store_likelihood in effect is the one in predict_args when
\* predict_args has that key, otherwise the keyword argument; when it is true
\* the emission likelihood is computed exactly once, by the initial predict,
\* which stores it on the classifier, and no refinement iteration computes
\* it again.
C24_LikelihoodComputedOnce ==
    /\ pc # "call" =>
        store_likelihood =
            IF "store_likelihood" \in DOMAIN call.predict_args
            THEN call.predict_args["store_likelihood"]
            ELSE call.store_likelihood
    /\ (Started /\ store_likelihood) =>
        /\ n_likelihood = 1
        /\ self.likelihood_ = PredictLikelihood(self, call.predict_args["spikes"])

C24_Witness ==
    /\ pc = "returned"
    /\ n_iter = MaxIter
    /\ Len(pass_log) = MaxIter + 1
    /\ "store_likelihood" \in DOMAIN call.predict_args
    /\ call.predict_args["store_likelihood"]
    /\ ~call.store_likelihood
    /\ n_likelihood = 1

\* C25: with a deterministic emission likelihood the stored-likelihood path
\* and the predict path of an iteration give the same results: after every
\* pass, whichever path ran it, the results are those of predict(**predict_args)
\* on the current parameters and also those of _get_results on the same
\* likelihood with the forwarded settings; the loop's decisions depend on the
\* results only, so both runs make the same iterations and return the same
\* log likelihoods and posteriors.
C25_StoredPathEqualsPredictPath ==
    pc \in {"loop", "returned"} =>
        /\ results = predict(self, predict_args, results.data_log_likelihood).results
        /\ results =
               get_results(self,
                           PredictLikelihood(self, predict_args["spikes"]),
                           predict_args["spikes"],
                           ArgOr(get_results_args, "is_compute_acausal", TRUE),
                           results.data_log_likelihood)
        /\ data_log_likelihoods = pass_log
        /\ n_iter = Len(pass_log) - 1

C25_Witness ==
    /\ pc = "returned"
    /\ store_likelihood
    /\ n_iter >= 1
    /\ "is_compute_acausal" \in DOMAIN predict_args
    /\ ~predict_args["is_compute_acausal"]
    /\ ~results.has_acausal

\* C26: a prediction result holds an acausal posterior exactly when
\* is_compute_acausal is true (its default); so a call with max_iter >= 1,
\* estimate_initial_conditions true and is_compute_acausal false in
\* predict_args never returns: after the initial pass it can only fail, in
\* its first refinement iteration, before any further pass.
C26_AcausalOnlyWhenAsked ==
    /\ pc \in {"loop", "returned", "raised"} =>
        /\ results.has_acausal = ArgOr(call.predict_args, "is_compute_acausal", TRUE)
        /\ results.has_acausal = (results.acausal_posterior # <<>>)
    /\ (/\ call.max_iter >= 1
        /\ call.estimate_initial_conditions
        /\ ~ArgOr(call.predict_args, "is_compute_acausal", TRUE)) =>
        /\ pc # "returned"
        /\ n_iter = 0
        /\ Len(pass_log) <= 1
        /\ pc = "raised" =>
               self.initial_conditions_ = fit(self, call.fit_args).initial_conditions_

C26_Witness ==
    /\ pc = "raised"
    /\ call.max_iter >= 1
    /\ call.estimate_initial_conditions
    /\ "is_compute_acausal" \in DOMAIN call.predict_args
    /\ ~call.predict_args["is_compute_acausal"]
    /\ n_iter = 0
    /\ Len(pass_log) = 1
====
